---- MODULE Spec2Model ----
(***************************************************************************)
(* Model of the Qube-Native Token Pixel Runtime (src/qube_runtime.py).     *)
(*                                                                         *)
(* Conventions.                                                            *)
(*  - Python floats that the runtime only compares (autonomyIndex, psi,    *)
(*    omega, the thresholds, target_psi) are integers in hundredths:       *)
(*    0.7 is 70, 0.5 is 50.  Records are well typed (the dataclass         *)
(*    annotations of TokenPixel hold).                                     *)
(*  - Python strings that the runtime takes apart (the voxel signature)    *)
(*    are sequences of one-character strings; opaque strings are strings.  *)
(*  - A Python dict is a function; {} is the empty function <<>>.          *)
(*  - None is the string "None".                                           *)
(***************************************************************************)
EXTENDS Integers, Sequences, FiniteSets, TLC

\* ------------------------------------------------------------------ bounds

\* process_pixel calls plus registry invocations issued on the runtime
MaxOps == 2
\* check_drift calls on the standalone drift monitor
MaxChecks == 3
\* process_pixel calls of the long-running feed
MaxFeedCalls == 102
\* length of the record pattern the long-running feed repeats
MaxPattern == 2
\* lines of an input stream
MaxLines == 3
\* required fields a JSON object line may lack at once
MaxMissing == 2
\* lines of the stream main reads
MaxMainLines == 2
\* segments of a corridor string
MaxSegments == 4
\* decode_voxel_signature calls on the standalone detector
MaxDecodes == 2
\* whole turns a phase angle is away from 0, and is shifted by
MaxTurns == 2

\* ------------------------------------------------------- program constants

\* AutonomyDriftMonitor.check_drift keeps at most this many samples
HistoryCap == 100
\* AutonomyDriftMonitor.__init__ defaults, in hundredths
DefaultWarning == 30
DefaultCritical == 70
\* StateVectorInterpreter.is_intent_aligned default threshold, in hundredths
AlignThreshold == 50
\* params of REALIGN_INTENT, in hundredths
TargetPsi == 80
\* StateVectorInterpreter.get_activity_level boundaries, in hundredths
IdleBelow == 50
ActiveBelow == 200
\* decode_voxel_signature keeps hash_val & 0x7FFFFFF: the low VoxelBits bits
VoxelBits == 27

None == "None"

\* --------------------------------------------------------------- strings

\* "VXL_0x00000004" as <<"V","X","L","_","0","x",...>>
IsWs(c) == c \in {" ", "\t", "\n", "\r"}

RECURSIVE LStrip(_)
LStrip(s) == IF s # <<>> /\ IsWs(Head(s)) THEN LStrip(Tail(s)) ELSE s

RECURSIVE RStrip(_)
RStrip(s) ==
    IF s # <<>> /\ IsWs(s[Len(s)]) THEN RStrip(SubSeq(s, 1, Len(s) - 1)) ELSE s

\* str.strip()
Strip(s) == RStrip(LStrip(s))

\* index of the first occurrence of "0x" in s, 0 when there is none
Find0x(s) ==
    LET hits == {i \in 1..(Len(s) - 1) : s[i] = "0" /\ s[i + 1] = "x"}
    IN  IF hits = {} THEN 0 ELSE CHOOSE i \in hits : \A j \in hits : i <= j

\* signature.split('0x'): has1 says parts[1] exists, part1 is parts[1]
Split0x(s) ==
    LET i == Find0x(s)
        rest == SubSeq(s, i + 2, Len(s))
        j == Find0x(rest)
    IN  IF i = 0 THEN [has1 |-> FALSE, part1 |-> <<>>]
        ELSE [has1 |-> TRUE,
              part1 |-> IF j = 0 THEN rest ELSE SubSeq(rest, 1, j - 1)]

HexChars ==
    <<"0", "1", "2", "3", "4", "5", "6", "7", "8", "9",
      "a", "b", "c", "d", "e", "f">>
HexUpper == <<"A", "B", "C", "D", "E", "F">>

IsHex(c) ==
    (\E i \in 1..Len(HexChars) : HexChars[i] = c)
    \/ (\E i \in 1..Len(HexUpper) : HexUpper[i] = c)

HexVal(c) ==
    IF \E i \in 1..Len(HexChars) : HexChars[i] = c
    THEN (CHOOSE i \in 1..Len(HexChars) : HexChars[i] = c) - 1
    ELSE (CHOOSE i \in 1..Len(HexUpper) : HexUpper[i] = c) + 9

\* digits with single underscores between them: d(_?d)*
RECURSIVE DigitsOk(_)
DigitsOk(s) ==
    /\ s # <<>>
    /\ IsHex(s[1])
    /\ \/ Len(s) = 1
       \/ IF s[2] = "_" THEN DigitsOk(SubSeq(s, 3, Len(s)))
          ELSE DigitsOk(Tail(s))

RECURSIVE DigitsVal(_, _)
DigitsVal(s, acc) ==
    IF s = <<>> THEN acc
    ELSE IF s[1] = "_" THEN DigitsVal(Tail(s), acc)
    ELSE DigitsVal(Tail(s), 16 * acc + HexVal(s[1]))

\* int(text, 16): ok is FALSE where Python raises ValueError
ParseInt16(text) ==
    LET t == Strip(text)
        signed == t # <<>> /\ t[1] \in {"+", "-"}
        neg == t # <<>> /\ t[1] = "-"
        u == IF signed THEN Tail(t) ELSE t
        prefixed == Len(u) >= 2 /\ u[1] = "0" /\ u[2] \in {"x", "X"}
        v == IF prefixed THEN SubSeq(u, 3, Len(u)) ELSE u
        w == IF prefixed /\ v # <<>> /\ v[1] = "_" THEN Tail(v) ELSE v
    IN  IF DigitsOk(w)
        THEN [ok |-> TRUE,
              val |-> IF neg THEN 0 - DigitsVal(w, 0) ELSE DigitsVal(w, 0)]
        ELSE [ok |-> FALSE, val |-> 0]

\* ------------------------------------------------- StateVectorInterpreter

\* is_intent_aligned with the boundary excluded
is_intent_alignedStrict(psi) == psi > AlignThreshold

is_intent_aligned(psi) == psi >= AlignThreshold

get_activity_level(omega) ==
    IF omega < IdleBelow THEN "IDLE"
    ELSE IF omega < ActiveBelow THEN "ACTIVE"
    ELSE "HYPERACTIVE"

\* -------------------------------------------------- VoxelCollisionDetector

\* the hash value kept whole
MaskBitsNone(hash_val) == hash_val

\* hash_val & 0x7FFFFFF (Python's & on a negative int is two's complement)
MaskBits(hash_val) == hash_val % (2 ^ VoxelBits)

\* decode_voxel_signature on a cache miss: the try block
DecodeFresh(signature) ==
    LET parts == Split0x(signature)
        parsed == ParseInt16(parts.part1)
    IN  IF parts.has1 /\ parsed.ok
        THEN [ok |-> TRUE, bits |-> MaskBits(parsed.val)]
        ELSE [ok |-> FALSE, bits |-> 0]

\* the signatures the inputs are drawn from
Sig(hex) == <<"V", "X", "L", "_", "0", "x">> \o hex

SigZero == Sig(<<"0", "0", "0", "0", "0", "0", "0", "0">>)
SigForward == Sig(<<"0", "0", "0", "0", "0", "0", "0", "4">>)
SigBackLeft == Sig(<<"0", "0", "0", "0", "0", "0", "0", "1">>)
SigNoMarker == <<"V", "X", "L", "_", "4">>

Signatures == {SigZero, SigForward, SigBackLeft, SigNoMarker}

\* DecodeFresh of every input signature, evaluated once
DecodeTable == [signature \in Signatures |-> DecodeFresh(signature)]

Decoded(signature) ==
    IF signature \in Signatures THEN DecodeTable[signature]
    ELSE DecodeFresh(signature)

\* decode_voxel_signature that also caches the 0 of a failed decode
decode_voxel_signatureCachingFailures(cache, signature) ==
    IF signature \in DOMAIN cache
    THEN [bits |-> cache[signature], cache |-> cache]
    ELSE LET d == Decoded(signature)
         IN  [bits |-> d.bits, cache |-> (signature :> d.bits) @@ cache]

\* decode_voxel_signature: the value returned and the cache afterwards
decode_voxel_signature(cache, signature) ==
    IF signature \in DOMAIN cache
    THEN [bits |-> cache[signature], cache |-> cache]
    ELSE LET d == Decoded(signature)
         IN  IF d.ok
             THEN [bits |-> d.bits, cache |-> (signature :> d.bits) @@ cache]
             ELSE [bits |-> 0, cache |-> cache]

\* the map with the front and back faces exchanged
direction_mapSwapped(direction) ==
    CASE direction = "forward" -> {0, 3, 6, 9, 12, 15, 18, 21, 24}
      [] direction = "backward" -> {2, 5, 8, 11, 14, 17, 20, 23, 26}
      [] direction = "left" -> {0, 1, 2, 9, 10, 11, 18, 19, 20}
      [] direction = "right" -> {6, 7, 8, 15, 16, 17, 24, 25, 26}
      [] OTHER -> {}

direction_map(direction) ==
    CASE direction = "forward" -> {2, 5, 8, 11, 14, 17, 20, 23, 26}
      [] direction = "backward" -> {0, 3, 6, 9, 12, 15, 18, 21, 24}
      [] direction = "left" -> {0, 1, 2, 9, 10, 11, 18, 19, 20}
      [] direction = "right" -> {6, 7, 8, 15, 16, 17, 24, 25, 26}
      [] OTHER -> {}

\* voxel_bits & (1 << bit_pos)
BitSet(voxel_bits, bit_pos) == (voxel_bits \div (2 ^ bit_pos)) % 2 = 1

is_collision_ahead(voxel_bits, direction) ==
    \E bit_pos \in direction_map(direction) : BitSet(voxel_bits, bit_pos)

\* ------------------------------------------------------------ IntentMatcher

\* get_default_config: intent_database
intent_database ==
    ("sha256:9f2c8d1e" :> "EXECUTE_TASK")
    @@ ("sha256:8b1d2f3c" :> "NAVIGATE_CORRIDOR")
    @@ ("sha256:urgent00" :> "EXECUTE_URGENT")

\* dict.get(intent_hash)
lookup_intent(intent_hash) ==
    IF intent_hash \in DOMAIN intent_database
    THEN intent_database[intent_hash]
    ELSE None

\* ----------------------------------------------------- AutonomyDriftMonitor

\* the cap test off by one
DriftCapExceededEarly(history) == Len(history) >= HistoryCap

DriftCapExceeded(history) == Len(history) > HistoryCap

\* check_drift, the history part: append, then pop(0) past the cap
DriftAppend(history, autonomy_index) ==
    LET h == Append(history, autonomy_index)
    IN  IF DriftCapExceeded(h) THEN Tail(h) ELSE h

\* the classification with the warning threshold tested first
DriftClassifyWarningFirst(autonomy_index, warning, critical) ==
    IF autonomy_index >= warning THEN "WARNING"
    ELSE IF autonomy_index >= critical THEN "CRITICAL"
    ELSE "NOMINAL"

\* check_drift, the classification part
DriftClassify(autonomy_index, warning, critical) ==
    IF autonomy_index >= critical THEN "CRITICAL"
    ELSE IF autonomy_index >= warning THEN "WARNING"
    ELSE "NOMINAL"

\* ------------------------------------------------------------- QubeRuntime

MkDecision(action, reason, params) ==
    [action |-> action, reason |-> reason, params |-> params]

\* decide with the collision rule ahead of the drift rule
decideCollisionFirst(context) ==
    IF context.collision_ahead
    THEN MkDecision("AVOID_OBSTACLE", "Collision detected in voxel neighborhood",
                    [direction |-> "left"])
    ELSE IF context.drift_status = "CRITICAL"
    THEN MkDecision("HALT", "Critical autonomy drift detected", <<>>)
    ELSE IF ~context.aligned
    THEN MkDecision("REALIGN_INTENT", "Intent alignment below threshold",
                    [target_psi |-> TargetPsi])
    ELSE IF context.intent_label = "EXECUTE_URGENT"
    THEN MkDecision("EXECUTE_IMMEDIATE", "Urgent intent detected", <<>>)
    ELSE MkDecision("CONTINUE", "Nominal operation", <<>>)

\* decide with the alignment rule ahead of the collision rule
decideRealignFirst(context) ==
    IF context.drift_status = "CRITICAL"
    THEN MkDecision("HALT", "Critical autonomy drift detected", <<>>)
    ELSE IF ~context.aligned
    THEN MkDecision("REALIGN_INTENT", "Intent alignment below threshold",
                    [target_psi |-> TargetPsi])
    ELSE IF context.collision_ahead
    THEN MkDecision("AVOID_OBSTACLE", "Collision detected in voxel neighborhood",
                    [direction |-> "left"])
    ELSE IF context.intent_label = "EXECUTE_URGENT"
    THEN MkDecision("EXECUTE_IMMEDIATE", "Urgent intent detected", <<>>)
    ELSE MkDecision("CONTINUE", "Nominal operation", <<>>)

\* QubeRuntime.decide over the context keys it reads
decide(context) ==
    IF context.drift_status = "CRITICAL"
    THEN MkDecision("HALT", "Critical autonomy drift detected", <<>>)
    ELSE IF context.collision_ahead
    THEN MkDecision("AVOID_OBSTACLE", "Collision detected in voxel neighborhood",
                    [direction |-> "left"])
    ELSE IF ~context.aligned
    THEN MkDecision("REALIGN_INTENT", "Intent alignment below threshold",
                    [target_psi |-> TargetPsi])
    ELSE IF context.intent_label = "EXECUTE_URGENT"
    THEN MkDecision("EXECUTE_IMMEDIATE", "Urgent intent detected", <<>>)
    ELSE MkDecision("CONTINUE", "Nominal operation", <<>>)

\* -------------------------------------------------------------- ActionExecutor

\* the registry with realign_intent taking target instead of target_psi
action_registryRenamed ==
    ("HALT" :> {})
    @@ ("AVOID_OBSTACLE" :> {"direction"})
    @@ ("REALIGN_INTENT" :> {"target"})
    @@ ("CONTINUE" :> {})
    @@ ("EXECUTE_IMMEDIATE" :> {})

\* get_default_config: action_registry, each callable by its named arguments
action_registry ==
    ("HALT" :> {})
    @@ ("AVOID_OBSTACLE" :> {"direction"})
    @@ ("REALIGN_INTENT" :> {"target_psi"})
    @@ ("CONTINUE" :> {})
    @@ ("EXECUTE_IMMEDIATE" :> {})

\* the value each default action returns
ActionReturn(action_name, params) ==
    CASE action_name = "HALT" -> [status |-> "HALTED", timestamp |-> "time.time()"]
      [] action_name = "AVOID_OBSTACLE" ->
            [status |-> "AVOIDING", direction |-> params.direction]
      [] action_name = "REALIGN_INTENT" ->
            [status |-> "REALIGNING", target |-> params.target_psi]
      [] action_name = "CONTINUE" -> [status |-> "CONTINUING"]
      [] OTHER -> [status |-> "EXECUTED_IMMEDIATE"]

(* A registry entry is [callable, args, does, value]: a callable takes the    *)
(* named arguments args and either returns (does "default": what the default *)
(* action of that name returns; does "return": value), raises an Exception   *)
(* whose message is value (does "raise"), or raises SystemExit, which is no  *)
(* Exception (does "exit"); an entry that is no callable is a plain value.   *)

\* the default registry, entry by entry
DefaultRegistry ==
    [action_name \in DOMAIN action_registry |->
        [callable |-> TRUE, args |-> action_registry[action_name],
         does |-> "default", value |-> None]]

ActionResult(success, result, error) ==
    [success |-> success, result |-> result, error |-> error]

\* execute calling every entry, callable or not
ExecutorExecuteCallingAll(registry, action_name, params) ==
    IF action_name \notin DOMAIN registry
    THEN [invoked |-> FALSE, kind |-> "return",
          result |-> ActionResult(FALSE, None,
                                  <<"Unknown action: ", action_name>>)]
    ELSE LET entry == registry[action_name]
         IN  IF ~entry.callable \/ DOMAIN params # entry.args
             THEN [invoked |-> TRUE, kind |-> "return",
                   result |-> ActionResult(FALSE, None, "TypeError")]
             ELSE IF entry.does = "raise"
             THEN [invoked |-> TRUE, kind |-> "return",
                   result |-> ActionResult(FALSE, None, entry.value)]
             ELSE IF entry.does = "exit"
             THEN [invoked |-> TRUE, kind |-> "raise",
                   exception |-> "SystemExit"]
             ELSE [invoked |-> TRUE, kind |-> "return",
                   result |-> ActionResult(TRUE,
                                  IF entry.does = "default"
                                  THEN ActionReturn(action_name, params)
                                  ELSE entry.value,
                                  None)]

\* ActionExecutor.execute on a registry: the ActionResult returned or the
\* exception left to the caller, and whether the callable was invoked;
\* action_func(**params) raises TypeError unless the names in params are the
\* callable's named arguments; the handler is `except Exception`
ExecutorExecute(registry, action_name, params) ==
    IF action_name \notin DOMAIN registry
    THEN [invoked |-> FALSE, kind |-> "return",
          result |-> ActionResult(FALSE, None,
                                  <<"Unknown action: ", action_name>>)]
    ELSE LET entry == registry[action_name]
         IN  IF ~entry.callable
             THEN [invoked |-> FALSE, kind |-> "return",
                   result |-> ActionResult(TRUE, entry, None)]
             ELSE IF DOMAIN params # entry.args
             THEN [invoked |-> TRUE, kind |-> "return",
                   result |-> ActionResult(FALSE, None, "TypeError")]
             ELSE IF entry.does = "raise"
             THEN [invoked |-> TRUE, kind |-> "return",
                   result |-> ActionResult(FALSE, None, entry.value)]
             ELSE IF entry.does = "exit"
             THEN [invoked |-> TRUE, kind |-> "raise",
                   exception |-> "SystemExit"]
             ELSE [invoked |-> TRUE, kind |-> "return",
                   result |-> ActionResult(TRUE,
                                  IF entry.does = "default"
                                  THEN ActionReturn(action_name, params)
                                  ELSE entry.value,
                                  None)]

\* ActionExecutor.execute of the runtime, built on the default registry
execute(action_name, params) ==
    ExecutorExecute(DefaultRegistry, action_name, params)

\* ------------------------------------------------------------------- state

VARIABLES
    decision_log,   \* QubeRuntime.decision_log
    drift_history,  \* QubeRuntime.drift_monitor.drift_history
    voxel_cache,    \* QubeRuntime.collision_detector.voxel_cache
    invocations,    \* names of the registry callables invoked so far, in order
    calls,          \* every process_pixel call so far: its record and its result
    last,           \* the last operation on the runtime, with what it returned
    feed,           \* the record pattern a long-running caller repeats
    monitor,        \* an AutonomyDriftMonitor built on its own: thresholds, history
    mon_last,       \* its last check_drift call: the sample and the status returned
    parse_last,     \* the last TokenPixelDeserializer.parse call: line and outcome
    source,         \* the lines of the text stream given to parse_stream
    read,           \* how many lines of source have been read
    gen,            \* the parse_stream generator: suspended, done or raised
    yielded,        \* the records parse_stream has yielded, in order
    probe,          \* the last call of a stateless component: arguments, result
    mainp           \* main: its mode, its place in the read loop, what it logged

rtVars == <<decision_log, drift_history, voxel_cache, invocations, calls, last>>
monVars == <<monitor, mon_last>>
streamVars == <<source, read, gen, yielded>>
auxVars == <<probe, mainp>>
vars ==
    <<decision_log, drift_history, voxel_cache, invocations, calls, last, feed,
      monitor, mon_last, parse_last, source, read, gen, yielded, probe, mainp>>

\* ------------------------------------------------------------------ inputs

\* the sample record of the tests, with the fields the pipeline reads varied
MkPixel(id, ts, index, psi, signature, intent) ==
    [tokenPixelId |-> id,
     timestamp |-> ts,
     agentId |-> "AGENT_Q",
     corridor |-> "DISTRICT_1.CHAMBER_0.NODE_START",
     stateVector |-> [phi |-> 50, psi |-> psi, omega |-> 100, tau |-> 10000],
     intentHash |-> intent,
     eventDelta |-> "EVENT_001",
     autonomyIndex |-> index,
     voxelSignature |-> signature,
     prevHash |-> "hash_prev",
     hash |-> "hash_curr"]

Stamps == {<<"TPX_TEST_01", 1737140000>>, <<"TPX_TEST_02", 1737140001>>}
Indexes == {69, 70}
Psis == {49, 50}
Intents == {"sha256:9f2c8d1e", "sha256:urgent00"}

Pixels ==
    {MkPixel(st[1], st[2], index, psi, signature, intent) :
        st \in Stamps, index \in Indexes, psi \in Psis,
        signature \in Signatures, intent \in Intents}

\* ------------------------------------------------------------- QubeRuntime

\* the context process_pixel hands to decide (the keys decide reads, and activity)
Context(pixel, drift_status, voxel_bits) ==
    [aligned |-> is_intent_aligned(pixel.stateVector.psi),
     activity |-> get_activity_level(pixel.stateVector.omega),
     drift_status |-> drift_status,
     collision_ahead |-> is_collision_ahead(voxel_bits, "forward"),
     intent_label |-> lookup_intent(pixel.intentHash)]

\* the log entry keyed by the agent instead of the record
LogEntryByAgent(pixel, decision) ==
    [pixel_id |-> pixel.agentId,
     decision |-> decision,
     timestamp |-> pixel.timestamp]

\* the entry process_pixel appends to the decision log
LogEntry(pixel, decision) ==
    [pixel_id |-> pixel.tokenPixelId,
     decision |-> decision,
     timestamp |-> pixel.timestamp]

\* QubeRuntime.__init__
InitRuntime ==
    /\ decision_log = <<>>
    /\ drift_history = <<>>
    /\ voxel_cache = <<>>
    /\ invocations = <<>>
    /\ calls = <<>>
    /\ last = [op |-> "init"]

\* process_pixel that also runs the action it decided
ProcessPixelExecuting(pixel) ==
    LET drift_status ==
            DriftClassify(pixel.autonomyIndex, DefaultWarning, DefaultCritical)
        decoded == decode_voxel_signature(voxel_cache, pixel.voxelSignature)
        context == Context(pixel, drift_status, decoded.bits)
        decision == decide(context)
        r == execute(decision.action, decision.params)
    IN  /\ drift_history' = DriftAppend(drift_history, pixel.autonomyIndex)
        /\ voxel_cache' = decoded.cache
        /\ decision_log' = Append(decision_log, LogEntry(pixel, decision))
        /\ calls' = Append(calls, [pixel |-> pixel, decision |-> decision])
        /\ last' = [op |-> "process_pixel", pixel |-> pixel,
                    context |-> context, decision |-> decision]
        /\ invocations' =
              IF r.invoked THEN Append(invocations, decision.action)
              ELSE invocations

\* QubeRuntime.process_pixel
ProcessPixel(pixel) ==
    LET drift_status ==
            DriftClassify(pixel.autonomyIndex, DefaultWarning, DefaultCritical)
        decoded == decode_voxel_signature(voxel_cache, pixel.voxelSignature)
        context == Context(pixel, drift_status, decoded.bits)
        decision == decide(context)
    IN  /\ drift_history' = DriftAppend(drift_history, pixel.autonomyIndex)
        /\ voxel_cache' = decoded.cache
        /\ decision_log' = Append(decision_log, LogEntry(pixel, decision))
        /\ calls' = Append(calls, [pixel |-> pixel, decision |-> decision])
        /\ last' = [op |-> "process_pixel", pixel |-> pixel,
                    context |-> context, decision |-> decision]
        /\ UNCHANGED invocations

\* QubeRuntime.execute_decision
ExecuteDecision(decision) ==
    LET r == execute(decision.action, decision.params)
    IN  /\ invocations' =
              IF r.invoked THEN Append(invocations, decision.action)
              ELSE invocations
        /\ last' = [op |-> "execute_decision", decision |-> decision,
                    result |-> r.result]
        /\ UNCHANGED <<decision_log, drift_history, voxel_cache, calls>>

\* decisions a caller hands to execute_decision: the ones process_pixel
\* returned, and one of its own naming an action outside the registry
UnknownDecision == MkDecision("SELF_DESTRUCT", "caller-made", <<>>)

Executable == {calls[i].decision : i \in 1..Len(calls)} \cup {UnknownDecision}

\* AutonomyDriftMonitor.__init__
InitMonitor(warning_threshold, critical_threshold) ==
    /\ monitor = [warning_threshold |-> warning_threshold,
                  critical_threshold |-> critical_threshold,
                  drift_history |-> <<>>]
    /\ mon_last = [op |-> "init"]

InitParser == parse_last = [op |-> "init"]

\* no component has been called yet, and main has not been started
InitAux ==
    /\ probe = [op |-> "init"]
    /\ mainp = [pc |-> "idle"]

InitStream(lines) ==
    /\ source = lines
    /\ read = 0
    /\ gen = "suspended"
    /\ yielded = <<>>

Init ==
    /\ InitRuntime
    /\ feed = <<>>
    /\ InitMonitor(DefaultWarning, DefaultCritical)
    /\ InitParser
    /\ InitStream(<<>>)
    /\ InitAux

Process ==
    /\ Len(calls) + Len(invocations) < MaxOps
    /\ \E pixel \in Pixels : ProcessPixel(pixel)
    /\ UNCHANGED <<feed, monVars, parse_last, streamVars, auxVars>>

Execute ==
    /\ Len(calls) + Len(invocations) < MaxOps
    /\ \E decision \in Executable : ExecuteDecision(decision)
    /\ UNCHANGED <<feed, monVars, parse_last, streamVars, auxVars>>

Next == Process \/ Execute

Spec == Init /\ [][Next]_vars

\* ------------------------------------------------- decide, called directly

\* contexts a caller of decide can pass: every combination of the keys it reads
Contexts ==
    [drift_status : {"NOMINAL", "WARNING", "CRITICAL"},
     collision_ahead : BOOLEAN,
     aligned : BOOLEAN,
     intent_label : {None, "EXECUTE_TASK", "NAVIGATE_CORRIDOR", "EXECUTE_URGENT"},
     activity : {"IDLE", "ACTIVE", "HYPERACTIVE"}]

DecideCall ==
    /\ \E context \in Contexts :
          last' = [op |-> "decide", context |-> context,
                   decision |-> decide(context)]
    /\ UNCHANGED <<decision_log, drift_history, voxel_cache, invocations,
                   calls, feed, monVars, parse_last, streamVars, auxVars>>

SpecDecide == Init /\ [][DecideCall]_vars

\* ------------------------------------------- a long-running record feed

\* one record per decision the pipeline can reach through the drift monitor
FeedPixels ==
    {MkPixel("TPX_TEST_01", 1737140000, 10, 90, SigZero, "sha256:9f2c8d1e"),
     MkPixel("TPX_TEST_02", 1737140001, 95, 90, SigZero, "sha256:9f2c8d1e"),
     MkPixel("TPX_TEST_03", 1737140002, 50, 90, SigForward, "sha256:9f2c8d1e"),
     MkPixel("TPX_TEST_04", 1737140003, 30, 20, SigZero, "sha256:9f2c8d1e")}

Patterns ==
    UNION {[1..n -> FeedPixels] : n \in 1..MaxPattern}

InitFeed ==
    /\ InitRuntime
    /\ feed \in Patterns
    /\ InitMonitor(DefaultWarning, DefaultCritical)
    /\ InitParser
    /\ InitStream(<<>>)
    /\ InitAux

\* the caller hands the pattern's records to process_pixel, round and round
FeedNext ==
    /\ Len(calls) < MaxFeedCalls
    /\ ProcessPixel(feed[(Len(calls) % Len(feed)) + 1])
    /\ UNCHANGED <<feed, monVars, parse_last, streamVars, auxVars>>

SpecFeed == InitFeed /\ [][FeedNext]_vars

\* ----------------------------------- AutonomyDriftMonitor, built on its own

\* (warning_threshold, critical_threshold) pairs: the defaults, a pair with
\* warning above critical, and an equal pair
ThresholdPairs == {<<30, 70>>, <<70, 30>>, <<50, 50>>}

Samples == {10, 29, 30, 50, 69, 70, 95}

InitMon ==
    /\ InitRuntime
    /\ feed = <<>>
    /\ \E pair \in ThresholdPairs : InitMonitor(pair[1], pair[2])
    /\ InitParser
    /\ InitStream(<<>>)
    /\ InitAux

\* AutonomyDriftMonitor.check_drift
CheckDrift(autonomy_index) ==
    /\ monitor' =
          [monitor EXCEPT
              !.drift_history = DriftAppend(monitor.drift_history, autonomy_index)]
    /\ mon_last' =
          [op |-> "check_drift",
           autonomy_index |-> autonomy_index,
           status |-> DriftClassify(autonomy_index, monitor.warning_threshold,
                                    monitor.critical_threshold)]

MonNext ==
    /\ Len(monitor.drift_history) < MaxChecks
    /\ \E autonomy_index \in Samples : CheckDrift(autonomy_index)
    /\ UNCHANGED <<rtVars, feed, parse_last, streamVars, auxVars>>

SpecMonitor == InitMon /\ [][MonNext]_vars

\* ---------------------------------------------------- TokenPixelDeserializer

(* A line of text is [kind, padded, value]: kind "blank" has no character    *)
(* but white space, kind "garbage" is text json.loads rejects, kind "json"   *)
(* is text json.loads turns into value; padded says white space (the line    *)
(* break) surrounds it.  A JSON value is [t |-> "object", fields |-> dict]   *)
(* or [t |-> "array"], [t |-> "number"], [t |-> "string"], [t |-> "null"].   *)
(* The field values parse only copies are kept as they are.                  *)

\* the keyword arguments of TokenPixel(...), in the order parse evaluates them
FieldOrder ==
    <<"tokenPixelId", "timestamp", "agentId", "corridor", "stateVector",
      "intentHash", "eventDelta", "autonomyIndex", "voxelSignature",
      "prevHash", "hash">>

Required == {FieldOrder[i] : i \in 1..Len(FieldOrder)}

StateKeys == {"phi", "psi", "omega", "tau"}

\* str.strip() of a line
StripLine(line) == [line EXCEPT !.padded = FALSE]

\* StateVector(**value) raises TypeError unless value is a dict with exactly
\* the keys phi, psi, omega, tau
StateVectorOk(value) == value.t = "object" /\ DOMAIN value.fields = StateKeys

\* the exceptions parse catches
Caught == {"JSONDecodeError", "KeyError"}

\* evaluating the i-th keyword argument onwards: the first exception raised,
\* "ok" when there is none
RECURSIVE EvalFields(_, _)
EvalFields(fields, i) ==
    IF i > Len(FieldOrder) THEN "ok"
    ELSE IF FieldOrder[i] \notin DOMAIN fields THEN "KeyError"
    ELSE IF FieldOrder[i] = "stateVector" /\ ~StateVectorOk(fields.stateVector)
    THEN "TypeError"
    ELSE EvalFields(fields, i + 1)

\* the body of parse's try block on a non-blank line: the exception it raises,
\* "ok" when it returns a TokenPixel
TryParse(line) ==
    IF line.kind = "garbage" THEN "JSONDecodeError"
    ELSE IF line.value.t # "object" THEN "TypeError"
    ELSE EvalFields(line.value.fields, 1)

\* the TokenPixel parse builds from the dict
BuildPixel(fields) ==
    [tokenPixelId |-> fields.tokenPixelId,
     timestamp |-> fields.timestamp,
     agentId |-> fields.agentId,
     corridor |-> fields.corridor,
     stateVector |-> [k \in StateKeys |-> fields.stateVector.fields[k]],
     intentHash |-> fields.intentHash,
     eventDelta |-> fields.eventDelta,
     autonomyIndex |-> fields.autonomyIndex,
     voxelSignature |-> fields.voxelSignature,
     prevHash |-> fields.prevHash,
     hash |-> fields.hash]

\* TokenPixelDeserializer.parse: a record, None, or an exception to the caller
parse(line) ==
    IF StripLine(line).kind = "blank" THEN [kind |-> "none"]
    ELSE LET e == TryParse(line)
         IN  IF e = "ok"
             THEN [kind |-> "record", pixel |-> BuildPixel(line.value.fields)]
             ELSE IF e \in Caught THEN [kind |-> "none"]
             ELSE [kind |-> "raise", exception |-> e]

\* ---- lines

\* json.dumps of a record, as the tests build their lines
DumpPixel(pixel) ==
    [t |-> "object",
     fields |-> [f \in Required |->
                    IF f = "stateVector"
                    THEN [t |-> "object", fields |-> pixel.stateVector]
                    ELSE pixel[f]]]

Restrict(f, keys) == [k \in keys |-> f[k]]

\* the object without some of its top-level keys
Without(object, keys) ==
    [object EXCEPT !.fields = Restrict(object.fields, DOMAIN object.fields \ keys)]

\* the object with its stateVector replaced
WithStateVector(object, value) ==
    [object EXCEPT
        !.fields = [f \in DOMAIN object.fields \cup {"stateVector"} |->
                       IF f = "stateVector" THEN value ELSE object.fields[f]]]

SamplePixel ==
    MkPixel("TPX_TEST_01", 1737140000, 10, 90, SigZero, "sha256:9f2c8d1e")

SampleObject == DumpPixel(SamplePixel)

\* stateVector values: complete, lacking psi, with an extra key, not an object
StateVectorValues ==
    {[t |-> "object", fields |-> SamplePixel.stateVector],
     [t |-> "object", fields |-> [phi |-> 50, omega |-> 100, tau |-> 10000]],
     [t |-> "object",
      fields |-> [phi |-> 50, psi |-> 90, omega |-> 100, tau |-> 10000,
                  chi |-> 0]],
     [t |-> "number", v |-> 5]}

Missings == {m \in SUBSET Required : Cardinality(m) <= MaxMissing}

\* with an extra top-level key, which parse ignores
ExtraObject ==
    [SampleObject EXCEPT
        !.fields = [f \in Required \cup {"extra"} |->
                       IF f = "extra" THEN 1 ELSE SampleObject.fields[f]]]

JsonValues ==
    {Without(WithStateVector(SampleObject, sv), m) :
        sv \in StateVectorValues, m \in Missings}
    \cup {ExtraObject}
    \cup {[t |-> "array"], [t |-> "number", v |-> 5],
          [t |-> "string", v |-> "abc"], [t |-> "null"]}

JsonLine(value, padded) == [kind |-> "json", padded |-> padded, value |-> value]
TextLine(kind, padded) == [kind |-> kind, padded |-> padded, value |-> [t |-> "null"]]

Lines ==
    {JsonLine(v, padded) : v \in JsonValues, padded \in BOOLEAN}
    \cup {TextLine(kind, padded) : kind \in {"blank", "garbage"}, padded \in BOOLEAN}

\* a caller calls TokenPixelDeserializer.parse on a line
ParseCall ==
    /\ \E line \in Lines :
          parse_last' = [op |-> "parse", line |-> line, out |-> parse(line)]
    /\ UNCHANGED <<rtVars, feed, monVars, streamVars, auxVars>>

SpecParse == Init /\ [][ParseCall]_vars

\* ---- parse_stream

\* the lines of the streams: a blank line, text that is no JSON, two records,
\* an object lacking autonomyIndex, a JSON array
OtherPixel ==
    MkPixel("TPX_TEST_02", 1737140001, 95, 20, SigForward, "sha256:urgent00")

StreamLines ==
    {TextLine("blank", TRUE),
     TextLine("garbage", TRUE),
     JsonLine(SampleObject, TRUE),
     JsonLine(DumpPixel(OtherPixel), TRUE),
     JsonLine(Without(SampleObject, {"autonomyIndex"}), TRUE),
     JsonLine([t |-> "array"], TRUE)}

Sources == UNION {[1..n -> StreamLines] : n \in 0..MaxLines}

\* the generator's loop from the line after `at`: lines are read one at a time
\* until one parses to a record (yield), one makes parse raise (raise), or the
\* stream ends (done); at is the number of lines read by then
RECURSIVE Advance(_, _)
Advance(lines, at) ==
    IF at = Len(lines) THEN [outcome |-> "done", at |-> at]
    ELSE LET out == parse(StripLine(lines[at + 1]))
         IN  IF out.kind = "raise"
             THEN [outcome |-> "raise", at |-> at + 1]
             ELSE IF out.kind = "record"
             THEN [outcome |-> "yield", at |-> at + 1, pixel |-> out.pixel]
             ELSE Advance(lines, at + 1)

\* the consumer asks the parse_stream generator for its next record
NextRecord ==
    /\ gen = "suspended"
    /\ LET step == Advance(source, read)
       IN  /\ read' = step.at
           /\ gen' = CASE step.outcome = "yield" -> "suspended"
                       [] step.outcome = "raise" -> "raised"
                       [] OTHER -> "done"
           /\ yielded' =
                 IF step.outcome = "yield" THEN Append(yielded, step.pixel)
                 ELSE yielded
    /\ UNCHANGED <<rtVars, feed, monVars, parse_last, source, auxVars>>

InitSource ==
    /\ InitRuntime
    /\ feed = <<>>
    /\ InitMonitor(DefaultWarning, DefaultCritical)
    /\ InitParser
    /\ \E lines \in Sources : InitStream(lines)
    /\ InitAux

SpecStream == InitSource /\ [][NextRecord]_vars

\* -------------------------------------------------------------------- main

(* A JSON object may carry unfit: the fields whose value json.loads accepts  *)
(* but the pipeline cannot use, each with what the line holds there: "null"  *)
(* (None where a string is read), "str" (a string such as "high" where a     *)
(* number is read), "nonfinite" (the literal Infinity).  parse copies such a *)
(* value as it is.  A null is held as None; a number slot holds 0 in fields, *)
(* TLC values being of one sort, and unfit alone says what is really there.  *)
UnfitObject(field, value, what) ==
    [t |-> "object",
     fields |-> [SampleObject.fields EXCEPT ![field] = value],
     unfit |-> (field :> what)]

\* the sample object with "phi": Infinity
NonFinitePhiObject ==
    [t |-> "object",
     fields |-> [SampleObject.fields EXCEPT !.stateVector.fields.phi = 0],
     unfit |-> ("phi" :> "nonfinite")]

Unfit(object) == IF "unfit" \in DOMAIN object THEN object.unfit ELSE <<>>

\* the lines of main's streams: two records (CONTINUE, HALT), a blank line,
\* text that is no JSON, an object lacking autonomyIndex, a JSON array,
\* records with a malformed corridor string and a malformed signature, and
\* records with an unfit corridor, phi, autonomyIndex and voxelSignature
MainLines ==
    {JsonLine(SampleObject, TRUE),
     JsonLine(DumpPixel(OtherPixel), TRUE),
     TextLine("blank", TRUE),
     TextLine("garbage", TRUE),
     JsonLine(Without(SampleObject, {"autonomyIndex"}), TRUE),
     JsonLine([t |-> "array"], TRUE),
     JsonLine(DumpPixel([SamplePixel EXCEPT !.corridor = "NOWHERE"]), TRUE),
     JsonLine(DumpPixel([SamplePixel EXCEPT !.voxelSignature = SigNoMarker]),
              TRUE),
     JsonLine(UnfitObject("corridor", None, "null"), TRUE),
     JsonLine(NonFinitePhiObject, TRUE),
     JsonLine(UnfitObject("autonomyIndex", 0, "str"), TRUE),
     JsonLine(UnfitObject("voxelSignature", None, "null"), TRUE)}

MainSources == UNION {[1..n -> MainLines] : n \in 0..MaxMainLines}

\* the step of process_pixel that raises on a record with unfit fields, and
\* the exception; raises "None" when every step runs through
ProcessFault(unfit) ==
    IF "corridor" \in DOMAIN unfit
    THEN [step |-> "parse_corridor", raises |-> "AttributeError"]
    ELSE IF "phi" \in DOMAIN unfit
    THEN [step |-> "get_phase_quadrant",
          raises |-> IF unfit["phi"] = "nonfinite" THEN "ValueError"
                     ELSE "TypeError"]
    ELSE IF "autonomyIndex" \in DOMAIN unfit
    THEN [step |-> "check_drift", raises |-> "TypeError"]
    ELSE IF "voxelSignature" \in DOMAIN unfit
    THEN [step |-> "decode_voxel_signature", raises |-> "AttributeError"]
    ELSE [step |-> "return", raises |-> None]

\* main after QubeRuntime(config), about to enter the read loop of its mode
InitMain ==
    /\ InitRuntime
    /\ feed = <<>>
    /\ InitMonitor(DefaultWarning, DefaultCritical)
    /\ InitParser
    /\ \E lines \in MainSources : InitStream(lines)
    /\ probe = [op |-> "init"]
    /\ \E mode \in {"file", "stdin"} :
          mainp = [pc |-> "read", mode |-> mode, pixel_count |-> 0,
                   logged |-> <<>>, interrupted |-> FALSE, raised |-> None]

Running == mainp.pc \in {"read", "process", "execute"}

\* the for statement asks parse_stream for the next record; when the stream
\* is exhausted the file branch logs its summary and the stdin branch returns
MainRead ==
    /\ mainp.pc = "read"
    /\ LET step == Advance(source, read)
       IN  /\ read' = step.at
           /\ gen' = CASE step.outcome = "yield" -> "suspended"
                       [] step.outcome = "raise" -> "raised"
                       [] OTHER -> "done"
           /\ yielded' =
                 IF step.outcome = "yield" THEN Append(yielded, step.pixel)
                 ELSE yielded
           /\ mainp' =
                 CASE step.outcome = "yield" -> [mainp EXCEPT !.pc = "process"]
                   [] step.outcome = "raise" ->
                        [mainp EXCEPT !.pc = "crashed", !.raised = "TypeError"]
                   [] OTHER ->
                        IF mainp.mode = "file"
                        THEN [mainp EXCEPT
                                !.pc = "exited",
                                !.logged =
                                    Append(@, [message |-> "Processed",
                                               pixel_count |-> mainp.pixel_count])]
                        ELSE [mainp EXCEPT !.pc = "exited"]
    /\ UNCHANGED <<rtVars, feed, monVars, parse_last, source, probe>>

\* agent_q.process_pixel(pixel); no handler of main catches what it raises
MainProcess ==
    /\ mainp.pc = "process"
    /\ LET pixel == yielded[Len(yielded)]
           fault == ProcessFault(Unfit(source[read].value))
       IN  IF fault.raises = None
           THEN /\ ProcessPixel(pixel)
                /\ mainp' = [mainp EXCEPT !.pc = "execute"]
           ELSE /\ drift_history' =
                      IF fault.step = "decode_voxel_signature"
                         \/ fault.step = "check_drift"
                      THEN DriftAppend(drift_history, pixel.autonomyIndex)
                      ELSE drift_history
                /\ mainp' = [mainp EXCEPT !.pc = "crashed",
                                          !.raised = fault.raises]
                /\ UNCHANGED <<decision_log, voxel_cache, invocations, calls,
                               last>>
    /\ UNCHANGED <<feed, monVars, parse_last, streamVars, probe>>

\* agent_q.execute_decision(decision), and the file branch's pixel_count += 1
MainExecute ==
    /\ mainp.pc = "execute"
    /\ ExecuteDecision(calls[Len(calls)].decision)
    /\ mainp' = [mainp EXCEPT
                    !.pc = "read",
                    !.pixel_count = IF mainp.mode = "file" THEN @ + 1 ELSE @]
    /\ UNCHANGED <<feed, monVars, parse_last, streamVars, probe>>

\* Ctrl+C while the loop runs: the stdin branch catches KeyboardInterrupt and
\* logs its farewell, the file branch has no handler for it
MainInterrupt ==
    /\ Running
    /\ mainp' =
          IF mainp.mode = "stdin"
          THEN [mainp EXCEPT
                  !.pc = "exited", !.interrupted = TRUE,
                  !.logged = Append(@, [message |-> "Agent Q shutting down."])]
          ELSE [mainp EXCEPT !.pc = "crashed", !.interrupted = TRUE,
                             !.raised = "KeyboardInterrupt"]
    /\ UNCHANGED <<rtVars, feed, monVars, parse_last, streamVars, probe>>

MainNext == MainRead \/ MainProcess \/ MainExecute \/ MainInterrupt

SpecMain == InitMain /\ [][MainNext]_vars

\* -------------------------------------------------------- CorridorNavigator

\* corridor strings are sequences of characters, as signatures are
\* "DISTRICT_1"
SegDistrict1 ==
    <<"D", "I", "S", "T", "R", "I", "C", "T", "_", "1">>

\* "DISTRICT_2"
SegDistrict2 ==
    <<"D", "I", "S", "T", "R", "I", "C", "T", "_", "2">>

\* "CHAMBER_0"
SegChamber0 ==
    <<"C", "H", "A", "M", "B", "E", "R", "_", "0">>

\* "CHAMBER_LORA"
SegChamberLora ==
    <<"C", "H", "A", "M", "B", "E", "R", "_", "L", "O", "R", "A">>

\* "NODE_START"
SegNodeStart ==
    <<"N", "O", "D", "E", "_", "S", "T", "A", "R", "T">>

\* "NODE_PROCESS"
SegNodeProcess ==
    <<"N", "O", "D", "E", "_", "P", "R", "O", "C", "E", "S", "S">>

\* "NODE_PRE"
SegNodePre ==
    <<"N", "O", "D", "E", "_", "P", "R", "E">>

\* "UNKNOWN"
SegUnknown ==
    <<"U", "N", "K", "N", "O", "W", "N">>

\* "DISTRICT"
SegDistrict ==
    <<"D", "I", "S", "T", "R", "I", "C", "T">>


\* str.split(sep) for a one-character separator: the list of segments
RECURSIVE SplitOn(_, _)
SplitOn(s, sep) ==
    LET hits == {i \in 1..Len(s) : s[i] = sep}
    IN  IF hits = {} THEN <<s>>
        ELSE LET i == CHOOSE h \in hits : \A j \in hits : h <= j
             IN  <<SubSeq(s, 1, i - 1)>> \o SplitOn(SubSeq(s, i + 1, Len(s)), sep)

IsDigit(c) == c \in {"0", "1", "2", "3", "4", "5", "6", "7", "8", "9"}

\* decimal digits with single underscores between them: d(_?d)*
RECURSIVE DecDigitsOk(_)
DecDigitsOk(s) ==
    /\ s # <<>>
    /\ IsDigit(s[1])
    /\ \/ Len(s) = 1
       \/ IF s[2] = "_" THEN DecDigitsOk(SubSeq(s, 3, Len(s)))
          ELSE DecDigitsOk(Tail(s))

RECURSIVE DecDigitsVal(_, _)
DecDigitsVal(s, acc) ==
    IF s = <<>> THEN acc
    ELSE IF s[1] = "_" THEN DecDigitsVal(Tail(s), acc)
    ELSE DecDigitsVal(Tail(s), 10 * acc + HexVal(s[1]))

\* int(text): ok is FALSE where Python raises ValueError
ParseInt10(text) ==
    LET t == Strip(text)
        signed == t # <<>> /\ t[1] \in {"+", "-"}
        neg == t # <<>> /\ t[1] = "-"
        u == IF signed THEN Tail(t) ELSE t
    IN  IF DecDigitsOk(u)
        THEN [ok |-> TRUE,
              val |-> IF neg THEN 0 - DecDigitsVal(u, 0) ELSE DecDigitsVal(u, 0)]
        ELSE [ok |-> FALSE, val |-> 0]

\* str(n) of a non-negative int
RECURSIVE FormatNat(_)
FormatNat(n) ==
    IF n < 10 THEN <<HexChars[n + 1]>>
    ELSE FormatNat(n \div 10) \o <<HexChars[(n % 10) + 1]>>

\* f"{n}" of an int
FormatInt(n) == IF n < 0 THEN <<"-">> \o FormatNat(0 - n) ELSE FormatNat(n)

MkCorridor(district, chamber, node) ==
    [district |-> district, chamber |-> chamber, node |-> node]

\* Corridor(0, "UNKNOWN", "UNKNOWN")
SentinelCorridor == MkCorridor(0, SegUnknown, SegUnknown)

\* the exceptions parse_corridor catches
CorridorCaught == {"IndexError", "ValueError"}

\* the body of parse_corridor's try block: the exception it raises, in the
\* order the statements run, "ok" when it returns a Corridor
TryCorridor(corridor_str) ==
    LET parts == SplitOn(corridor_str, ".")
        head == SplitOn(parts[1], "_")
    IN  IF Len(head) < 2 THEN "IndexError"
        ELSE IF ~ParseInt10(head[2]).ok THEN "ValueError"
        ELSE IF Len(parts) < 3 THEN "IndexError"
        ELSE "ok"

\* parse_corridor: the Corridor returned, or an exception to the caller
parse_corridor(corridor_str) ==
    LET parts == SplitOn(corridor_str, ".")
        e == TryCorridor(corridor_str)
    IN  IF e = "ok"
        THEN [kind |-> "return",
              corridor |-> MkCorridor(ParseInt10(SplitOn(parts[1], "_")[2]).val,
                                      parts[2], parts[3])]
        ELSE IF e \in CorridorCaught
        THEN [kind |-> "return", corridor |-> SentinelCorridor]
        ELSE [kind |-> "raise", exception |-> e]

\* the key built without the chamber
CorridorKeyNoChamber(corridor) ==
    SegDistrict \o <<"_">> \o FormatInt(corridor.district)
        \o <<".">> \o corridor.node

\* f"DISTRICT_{corridor.district}.{corridor.chamber}.{corridor.node}"
CorridorKey(corridor) ==
    SegDistrict \o <<"_">> \o FormatInt(corridor.district)
        \o <<".">> \o corridor.chamber \o <<".">> \o corridor.node

\* get_neighbors: self.graph.get(key, []), and the graph afterwards
get_neighbors(graph, corridor) ==
    LET key == CorridorKey(corridor)
    IN  [neighbors |-> IF key \in DOMAIN graph THEN graph[key] ELSE <<>>,
         graph |-> graph]

\* segments joined with "."
RECURSIVE Dotted(_)
Dotted(segments) ==
    IF Len(segments) = 1 THEN segments[1]
    ELSE segments[1] \o <<".">> \o Dotted(Tail(segments))

\* get_default_config: corridor_graph
corridor_graph ==
    (Dotted(<<SegDistrict1, SegChamber0, SegNodeStart>>)
        :> <<Dotted(<<SegDistrict1, SegChamber0, SegNodeProcess>>)>>)
    @@ (Dotted(<<SegDistrict1, SegChamber0, SegNodeProcess>>)
        :> <<Dotted(<<SegDistrict2, SegChamberLora, SegNodePre>>)>>)

\* a graph a configuration may give instead: keys with a negative district,
\* with a zero-padded district, and with four segments
OtherGraph ==
    (Dotted(<<SegDistrict \o <<"_", "-", "5">>, SegChamber0, SegNodeStart>>)
        :> <<Dotted(<<SegDistrict1, SegChamber0, SegNodeStart>>)>>)
    @@ (Dotted(<<SegDistrict \o <<"_", "0", "3">>, SegChamber0, SegNodeStart>>)
        :> <<Dotted(<<SegDistrict2, SegChamberLora, SegNodePre>>)>>)
    @@ (Dotted(<<SegDistrict1, SegChamber0, SegNodeStart, SegNodePre>>)
        :> <<Dotted(<<SegDistrict1, SegChamber0, SegNodeProcess>>)>>)

Graphs == {corridor_graph, OtherGraph}

\* first segments: a district, a negative one, no number, no underscore, a
\* second underscore, white space, a zero-padded number, no name, nothing
FirstSegments ==
    {SegDistrict1,
     SegDistrict \o <<"_", "-", "5">>,
     SegDistrict \o <<"_", "x">>,
     SegDistrict,
     SegDistrict \o <<"_", "1", "_", "x">>,
     SegDistrict \o <<"_", " ", "3">>,
     SegDistrict \o <<"_", "0", "3">>,
     <<"_", "7">>,
     <<>>}

LaterSegments == {SegChamber0, SegNodeStart, SegNodeProcess, SegUnknown, <<>>}

\* corridor strings of one to MaxSegments segments
CorridorStrings ==
    {Dotted(<<first>> \o rest) :
        first \in FirstSegments,
        rest \in UNION {[1..n -> LaterSegments] : n \in 0..(MaxSegments - 1)}}

\* a navigator keeps nothing between calls, so a behaviour makes one call
\* a caller calls parse_corridor on a string
ParseCorridorCall ==
    /\ probe.op = "init"
    /\ \E s \in CorridorStrings :
          probe' = [op |-> "parse_corridor", input |-> s,
                    out |-> parse_corridor(s)]
    /\ UNCHANGED <<rtVars, feed, monVars, parse_last, streamVars, mainp>>

\* a caller asks a navigator built on graph for the neighbors of the corridor
\* a string parses to
NeighborsCall ==
    /\ probe.op = "init"
    /\ \E graph \in Graphs, s \in CorridorStrings :
          LET corridor == parse_corridor(s).corridor
              r == get_neighbors(graph, corridor)
          IN  probe' = [op |-> "get_neighbors", graph |-> graph, input |-> s,
                        corridor |-> corridor, out |-> r.neighbors,
                        graph_after |-> r.graph]
    /\ UNCHANGED <<rtVars, feed, monVars, parse_last, streamVars, mainp>>

CorridorNext == ParseCorridorCall \/ NeighborsCall

SpecCorridor == Init /\ [][CorridorNext]_vars

\* ------------------------------------ VoxelCollisionDetector, on its own

\* signatures beside those of the records: the hex part has
\*   "VXL_0x8000004"    bit 27 and bit 2
\*   "VXL_0x7FFFFFF"    all 27 bits
\*   "VXL_0x8000000"    bit 27 alone
\*   "VXL_0x7fffffff"   31 bits
\*   "0xfF"             mixed case, no prefix text
\*   "VXL_0xZZ"         no hex digit
\*   "VXL_0x"           nothing after the marker
\*   "VXL_0x-4"         a sign
\*   "VXL_0x4_4"        an underscore
\*   "VXL_0x 4 "        white space
\*   "VXL_0x0x4"        the marker twice
\*   "VXL_0x040x05"     two hex parts
\*   "VXL_0x0X4"        an upper-case prefix after the marker
\*   "VXL_0x_4"         a leading underscore
\*   "VXL_0x04_SUFFIX"  text after the digits
\*   "VXL_0X4"          an upper-case marker
\*   ""                 the empty string
DecodeSignatures ==
    Signatures \cup
    {<<"V", "X", "L", "_", "0", "x", "8", "0", "0", "0", "0", "0", "4">>,
     <<"V", "X", "L", "_", "0", "x", "7", "F", "F", "F", "F", "F", "F">>,
     <<"V", "X", "L", "_", "0", "x", "8", "0", "0", "0", "0", "0", "0">>,
     <<"V", "X", "L", "_", "0", "x", "7", "f", "f", "f", "f", "f", "f", "f">>,
     <<"0", "x", "f", "F">>,
     <<"V", "X", "L", "_", "0", "x", "Z", "Z">>,
     <<"V", "X", "L", "_", "0", "x">>,
     <<"V", "X", "L", "_", "0", "x", "-", "4">>,
     <<"V", "X", "L", "_", "0", "x", "4", "_", "4">>,
     <<"V", "X", "L", "_", "0", "x", " ", "4", " ">>,
     <<"V", "X", "L", "_", "0", "x", "0", "x", "4">>,
     <<"V", "X", "L", "_", "0", "x", "0", "4", "0", "x", "0", "5">>,
     <<"V", "X", "L", "_", "0", "x", "0", "X", "4">>,
     <<"V", "X", "L", "_", "0", "x", "_", "4">>,
     <<"V", "X", "L", "_", "0", "x", "0", "4", "_", "S", "U", "F", "F", "I",
       "X">>,
     <<"V", "X", "L", "_", "0", "X", "4">>,
     <<>>}

\* a caller calls decode_voxel_signature on a detector, MaxDecodes times
DecodeCall ==
    /\ IF probe.op = "init" THEN TRUE ELSE probe.n < MaxDecodes
    /\ \E signature \in DecodeSignatures :
          LET r == decode_voxel_signature(voxel_cache, signature)
          IN  /\ voxel_cache' = r.cache
              /\ probe' = [op |-> "decode_voxel_signature",
                           n |-> IF probe.op = "init" THEN 1 ELSE probe.n + 1,
                           signature |-> signature, out |-> r.bits,
                           cached |-> signature \in DOMAIN voxel_cache]
    /\ UNCHANGED <<decision_log, drift_history, invocations, calls, last, feed,
                   monVars, parse_last, streamVars, mainp>>

SpecDecode == Init /\ [][DecodeCall]_vars

\* ---- is_collision_ahead

\* bit vectors: none set, each of the 27 alone, two together, all 27, and
\* bit 27, which no face holds
CollisionBits ==
    {0, 2 ^ 2 + 2 ^ 6, 2 ^ VoxelBits - 1, 2 ^ VoxelBits}
    \cup {2 ^ p : p \in 0..(VoxelBits - 1)}

Directions == {"forward", "backward", "left", "right", "up", "FORWARD", ""}

\* a caller calls is_collision_ahead; the detector keeps nothing of it, so a
\* behaviour makes one call
CollisionCall ==
    /\ probe.op = "init"
    /\ \E voxel_bits \in CollisionBits, direction \in Directions :
          probe' = [op |-> "is_collision_ahead", voxel_bits |-> voxel_bits,
                    direction |-> direction,
                    out |-> is_collision_ahead(voxel_bits, direction)]
    /\ UNCHANGED <<rtVars, feed, monVars, parse_last, streamVars, mainp>>

SpecCollision == Init /\ [][CollisionCall]_vars

\* ------------------------------------------------- ActionExecutor, on its own

\* a registry a configuration may give: a callable that raises, one that
\* calls sys.exit, one that takes an argument x, and an entry that is no
\* callable
CustomRegistry ==
    ("RAISER" :> [callable |-> TRUE, args |-> {}, does |-> "raise",
                  value |-> "boom"])
    @@ ("EXIT" :> [callable |-> TRUE, args |-> {}, does |-> "exit",
                   value |-> None])
    @@ ("NEEDS_X" :> [callable |-> TRUE, args |-> {"x"}, does |-> "return",
                      value |-> "done"])
    @@ ("CONSTANT" :> [callable |-> FALSE, args |-> {}, does |-> "none",
                       value |-> "a constant"])

Registries == {DefaultRegistry, CustomRegistry}

ActionNames ==
    DOMAIN DefaultRegistry \cup DOMAIN CustomRegistry \cup {"SELF_DESTRUCT"}

ParamDicts ==
    {<<>>, [direction |-> "left"], [direction |-> "right"],
     [target_psi |-> TargetPsi], [target_psi |-> AlignThreshold], [x |-> 1],
     [direction |-> "left", x |-> 1]}

\* a caller calls execute on an executor built on a registry; the executor
\* keeps nothing of it, so a behaviour makes one call
ExecutorCall ==
    /\ probe.op = "init"
    /\ \E registry \in Registries, action_name \in ActionNames,
          params \in ParamDicts :
          probe' = [op |-> "execute", registry |-> registry,
                    action_name |-> action_name, params |-> params,
                    out |-> ExecutorExecute(registry, action_name, params)]
    /\ UNCHANGED <<rtVars, feed, monVars, parse_last, streamVars, mainp>>

SpecExecutor == Init /\ [][ExecutorCall]_vars

\* ------------------------------------------ get_phase_quadrant, in floats

(* A float here is an integer number of units that a binary format with     *)
(* FloatPrecision significand bits can hold: every integer below             *)
(* 2^FloatPrecision, then every second one, every fourth, and so on.  The    *)
(* code runs in binary64, the same format with 53 bits; an operation whose   *)
(* exact result the format cannot hold returns the nearest float, ties to    *)
(* the even significand.  math.pi / 2 is the float HalfPi, and 2 * math.pi,  *)
(* four times it, is exact in either format.                                 *)
FloatPrecision == 3

HalfPi == 3 * 2 ^ FloatPrecision
TwoPi == 4 * HalfPi

Abs(x) == IF x < 0 THEN 0 - x ELSE x

\* the spacing of the floats at the magnitude a >= 0
RECURSIVE Ulp(_)
Ulp(a) == IF a < 2 ^ FloatPrecision THEN 1 ELSE 2 * Ulp(a \div 2)

Representable(x) == Abs(x) % Ulp(Abs(x)) = 0

\* the float nearest to the exact value a >= 0
RoundNat(a) ==
    LET u == Ulp(a)
        lo == a - (a % u)
        hi == lo + u
    IN  IF a - lo < hi - a THEN lo
        ELSE IF a - lo > hi - a THEN hi
        ELSE IF (lo \div u) % 2 = 0 THEN lo ELSE hi

\* the float nearest to the exact value x
Round(x) == IF x < 0 THEN 0 - RoundNat(0 - x) ELSE RoundNat(x)

\* C fmod(x, y) for y > 0: exact, with the sign of x
Fmod(x, y) == IF x < 0 THEN 0 - ((0 - x) % y) ELSE x % y

\* Python's float x % y for y > 0: fmod, then y added to a negative remainder
FloatMod(x, y) ==
    LET mod == Fmod(x, y)
    IN  IF mod < 0 THEN Round(mod + y) ELSE mod

\* StateVectorInterpreter.get_phase_quadrant
get_phase_quadrant(phi) ==
    LET normalized == FloatMod(phi, TwoPi)
    IN  normalized \div HalfPi

\* finite phase angles up to MaxTurns turns either way
PhaseAngles == {x \in (0 - MaxTurns * TwoPi)..(MaxTurns * TwoPi) : Representable(x)}

\* a caller computes the quadrant of phi and of phi + 2 * math.pi * k; the
\* interpreter keeps nothing, so a behaviour makes one such pair of calls
QuadrantCall ==
    /\ probe.op = "init"
    /\ \E phi \in PhaseAngles, k \in (0 - MaxTurns)..MaxTurns :
          LET shifted == Round(phi + Round(k * TwoPi))
          IN  probe' = [op |-> "get_phase_quadrant", phi |-> phi, k |-> k,
                        out |-> get_phase_quadrant(phi),
                        shifted |-> shifted,
                        out_shifted |-> get_phase_quadrant(shifted)]
    /\ UNCHANGED <<rtVars, feed, monVars, parse_last, streamVars, mainp>>

SpecQuadrant == Init /\ [][QuadrantCall]_vars

\* ------------------------------------------------------------------ claims

Decided == last.op \in {"decide", "process_pixel"}

Actions ==
    {"HALT", "AVOID_OBSTACLE", "REALIGN_INTENT", "EXECUTE_IMMEDIATE", "CONTINUE"}

\* C1: decide is a strict first-match priority chain: HALT with no params on
\* CRITICAL drift; else AVOID_OBSTACLE {direction: left} on collision_ahead;
\* else REALIGN_INTENT {target_psi: 0.8} when not aligned; else
\* EXECUTE_IMMEDIATE with no params on the label EXECUTE_URGENT; else CONTINUE
\* with no params and reason "Nominal operation"; no other action is returned.
C1_DecidePriorityChain ==
    Decided =>
        LET c == last.context
            d == last.decision
            critical == c.drift_status = "CRITICAL"
            urgent == c.intent_label = "EXECUTE_URGENT"
        IN  /\ d.action \in Actions
            /\ critical => d.action = "HALT" /\ d.params = <<>>
            /\ (~critical /\ c.collision_ahead) =>
                  d.action = "AVOID_OBSTACLE" /\ d.params = [direction |-> "left"]
            /\ (~critical /\ ~c.collision_ahead /\ ~c.aligned) =>
                  d.action = "REALIGN_INTENT" /\ d.params = [target_psi |-> 80]
            /\ (~critical /\ ~c.collision_ahead /\ c.aligned /\ urgent) =>
                  d.action = "EXECUTE_IMMEDIATE" /\ d.params = <<>>
            /\ (~critical /\ ~c.collision_ahead /\ c.aligned /\ ~urgent) =>
                  /\ d.action = "CONTINUE"
                  /\ d.params = <<>>
                  /\ d.reason = "Nominal operation"

\* C1 witness: CRITICAL drift with a collision ahead was decided, as HALT
C1_Witness ==
    /\ last.op = "decide"
    /\ last.context.drift_status = "CRITICAL"
    /\ last.context.collision_ahead
    /\ last.decision.action = "HALT"

\* C2 as stated: every context with collision_ahead true and aligned false
\* yields AVOID_OBSTACLE.
C2_AsStated ==
    (Decided /\ last.context.collision_ahead /\ ~last.context.aligned) =>
        last.decision.action = "AVOID_OBSTACLE"

\* C2 amended: a context with collision_ahead true and aligned false yields
\* AVOID_OBSTACLE unless drift_status is CRITICAL, where it yields HALT; it
\* never yields REALIGN_INTENT.
C2_CollisionBeforeRealign ==
    (Decided /\ last.context.collision_ahead /\ ~last.context.aligned) =>
        /\ last.decision.action # "REALIGN_INTENT"
        /\ last.decision.action =
              IF last.context.drift_status = "CRITICAL" THEN "HALT"
              ELSE "AVOID_OBSTACLE"

\* C2 witness: collision ahead, not aligned, drift not critical: AVOID_OBSTACLE
C2_Witness ==
    /\ last.op = "decide"
    /\ last.context.collision_ahead
    /\ ~last.context.aligned
    /\ last.context.drift_status = "WARNING"
    /\ last.decision.action = "AVOID_OBSTACLE"

\* the decision the claim C3 prescribes for a record, from the record alone
C3_Prescribed(pixel) ==
    LET bits == DecodeFresh(pixel.voxelSignature).bits
        forward == {2, 5, 8, 11, 14, 17, 20, 23, 26}
        hit == \E b \in forward : (bits \div (2 ^ b)) % 2 = 1
    IN  IF pixel.autonomyIndex >= 70 THEN "HALT"
        ELSE IF hit THEN "AVOID_OBSTACLE"
        ELSE IF pixel.stateVector.psi < 50 THEN "REALIGN_INTENT"
        ELSE IF pixel.intentHash = "sha256:urgent00" THEN "EXECUTE_IMMEDIATE"
        ELSE "CONTINUE"

C3_PrescribedTable == [pixel \in Pixels |-> C3_Prescribed(pixel)]

IsPrefix(s, t) == Len(s) <= Len(t) /\ SubSeq(t, 1, Len(s)) = s

\* C4: the decision log is empty at construction and append-only in arrival
\* order: after n process_pixel calls it has n entries, the i-th holding the
\* i-th record's tokenPixelId and timestamp and the decision returned for it,
\* and no step (process_pixel or execute_decision) removes, reorders or
\* changes an earlier entry.
C4_LogAppendOnly ==
    /\ [](/\ Len(decision_log) = Len(calls)
          /\ \A i \in 1..Len(calls) :
                /\ decision_log[i].pixel_id = calls[i].pixel.tokenPixelId
                /\ decision_log[i].timestamp = calls[i].pixel.timestamp
                /\ decision_log[i].decision = calls[i].decision)
    /\ [][IsPrefix(decision_log, decision_log') /\ IsPrefix(calls, calls')]_vars

\* C4 witness: two records with different ids and different decisions, logged
\* in the order they were processed
C4_Witness ==
    /\ Len(decision_log) = 2
    /\ decision_log[1].pixel_id = "TPX_TEST_02"
    /\ decision_log[2].pixel_id = "TPX_TEST_01"
    /\ decision_log[1].decision.action # decision_log[2].decision.action

\* C7: process_pixel invokes no entry of the action registry, and
\* execute_decision leaves the decision log, the drift history and the voxel
\* cache unchanged.
C7_ProduceExecuteSeparate ==
    [][/\ last'.op = "process_pixel" => invocations' = invocations
       /\ last'.op = "execute_decision" =>
             UNCHANGED <<decision_log, drift_history, voxel_cache>>]_vars

\* C7 witness: a processed record's decision was executed, invoking its action,
\* with the record's log entry, sample and cache entry in place
C7_Witness ==
    /\ last.op = "execute_decision"
    /\ last.result.success
    /\ invocations = <<"AVOID_OBSTACLE">>
    /\ Len(decision_log) = 1
    /\ Len(drift_history) = 1
    /\ DOMAIN voxel_cache = {SigForward}

Min(a, b) == IF a <= b THEN a ELSE b

\* C5: after n process_pixel calls the drift history is exactly the
\* autonomyIndex values of the last min(n, 100) processed records in arrival
\* order, whatever the decisions were; it never holds more than 100 samples.
C5_HistoryLastHundred ==
    LET n == Len(calls)
        k == Min(n, 100)
    IN  /\ Len(drift_history) = k
        /\ k <= 100
        /\ \A i \in 1..k :
              drift_history[i] = calls[n - k + i].pixel.autonomyIndex

\* C5 witness: the 101st call, which halted, evicted the first sample only
C5_Witness ==
    /\ Len(calls) = 101
    /\ Len(drift_history) = 100
    /\ drift_history[1] = calls[2].pixel.autonomyIndex
    /\ drift_history[1] # calls[1].pixel.autonomyIndex
    /\ drift_history[100] = calls[101].pixel.autonomyIndex
    /\ calls[101].decision.action = "HALT"

\* C6: check_drift classifies the latest sample alone, critical before
\* warning: CRITICAL iff index >= critical, WARNING iff index < critical and
\* index >= warning, NOMINAL otherwise, for every threshold pair (warning
\* above critical too) and every earlier history; with the defaults 0.3/0.7
\* the samples 0.7 and 0.3 are CRITICAL and WARNING.
C6_ClassifyLatestSample ==
    mon_last.op = "check_drift" =>
        LET x == mon_last.autonomy_index
            w == monitor.warning_threshold
            c == monitor.critical_threshold
            st == mon_last.status
        IN  /\ st \in {"NOMINAL", "WARNING", "CRITICAL"}
            /\ st = "CRITICAL" <=> x >= c
            /\ st = "WARNING" <=> (x < c /\ x >= w)
            /\ st = "NOMINAL" <=> (x < c /\ x < w)
            /\ (w = 30 /\ c = 70 /\ x = 70) => st = "CRITICAL"
            /\ (w = 30 /\ c = 70 /\ x = 30) => st = "WARNING"

\* C6 witness: with warning above critical, a sample between them is CRITICAL
\* after earlier samples above and below it
C6_Witness ==
    /\ mon_last.op = "check_drift"
    /\ monitor.warning_threshold = 70
    /\ monitor.critical_threshold = 30
    /\ monitor.drift_history = <<95, 10, 50>>
    /\ mon_last.status = "CRITICAL"

LacksRequired(line) ==
    /\ line.kind = "json"
    /\ \/ line.value.t # "object"
       \/ Required \ DOMAIN line.value.fields # {}
       \/ /\ "stateVector" \in DOMAIN line.value.fields
          /\ \/ line.value.fields.stateVector.t # "object"
             \/ DOMAIN line.value.fields.stateVector.fields # StateKeys

\* C8 as stated: parse never raises: it returns a record or None, and None for
\* a blank line, for text that is not JSON, and for JSON lacking a required
\* field (a non-object, a stateVector lacking or exceeding phi, psi, omega,
\* tau included).
C8_ParseNeverRaises ==
    parse_last.op = "parse" =>
        /\ parse_last.out.kind \in {"record", "none"}
        /\ parse_last.line.kind \in {"blank", "garbage"} =>
              parse_last.out.kind = "none"
        /\ LacksRequired(parse_last.line) => parse_last.out.kind = "none"

\* C9 as stated: a JSON object lacking one of the eleven required top-level
\* fields parses to None with no fault; an object with all of them and a
\* complete stateVector parses to a record whose fields are the input values.
C9_MissingFieldSkipped ==
    (parse_last.op = "parse" /\ parse_last.line.kind = "json"
        /\ parse_last.line.value.t = "object") =>
        LET fields == parse_last.line.value.fields
            out == parse_last.out
        IN  /\ Required \ DOMAIN fields # {} => out.kind = "none"
            /\ (Required \subseteq DOMAIN fields
                  /\ fields.stateVector.t = "object"
                  /\ DOMAIN fields.stateVector.fields = StateKeys) =>
                  /\ out.kind = "record"
                  /\ \A f \in Required \ {"stateVector"} :
                        out.pixel[f] = fields[f]
                  /\ \A k \in StateKeys :
                        out.pixel.stateVector[k] = fields.stateVector.fields[k]

\* the records of the lines that parse to a record, in order
RECURSIVE RecordsOf(_)
RecordsOf(lines) ==
    IF lines = <<>> THEN <<>>
    ELSE LET out == parse(StripLine(Head(lines)))
         IN  IF out.kind = "record" THEN <<out.pixel>> \o RecordsOf(Tail(lines))
             ELSE RecordsOf(Tail(lines))

\* C10 as stated: parse_stream yields exactly the records of the lines that
\* parse, in input order, each once; a line that fails to parse or is blank is
\* omitted and does not stop the stream; a line is read only when the consumer
\* asks for the next record.
C10_StreamYieldsParsedLines ==
    /\ gen # "raised"
    /\ yielded = RecordsOf(SubSeq(source, 1, read))
    /\ gen = "done" => read = Len(source)
    /\ (gen = "suspended" /\ read > 0) =>
          parse(StripLine(source[read])).kind = "record"

\* C11 as stated: over a finite stream main processes and executes every
\* record parse accepts exactly once, in arrival order, each one's
\* process_pixel and execute_decision done before the next line is read, and
\* when the loop ends the decision log holds one entry per accepted record,
\* whatever malformed lines, malformed corridors or signatures or wrongly typed
\* field values the stream holds (runs the operator interrupts are left out).
C11_EveryRecordProcessedOnce ==
    ~mainp.interrupted =>
        /\ mainp.pc # "crashed"
        /\ Len(calls) <= Len(RecordsOf(source))
        /\ [i \in 1..Len(calls) |-> calls[i].pixel]
              = SubSeq(RecordsOf(source), 1, Len(calls))
        /\ [i \in 1..Len(invocations) |-> calls[i].decision.action] = invocations
        /\ mainp.pc = "read" =>
              Len(invocations) = Len(calls) /\ Len(calls) = Len(yielded)
        /\ mainp.pc = "exited" =>
              /\ Len(decision_log) = Len(RecordsOf(source))
              /\ \A i \in 1..Len(decision_log) :
                    decision_log[i].pixel_id = RecordsOf(source)[i].tokenPixelId

\* C16 as stated: whenever the read loop ends, by exhaustion of stdin, by an
\* interrupt during the stdin loop or at the end of the stream file, main has
\* logged the summary with the count of records and the throughput.
C16_SummaryOnTermination ==
    mainp.pc = "exited" =>
        \E i \in 1..Len(mainp.logged) : mainp.logged[i].message = "Processed"

\* the number of segments a string splits into on "."
SegmentCount(s) == 1 + Cardinality({i \in 1..Len(s) : s[i] = "."})

\* the text after the first "_" of the first segment; has says there is one
AfterFirstUnderscore(s) ==
    LET dots == {i \in 1..Len(s) : s[i] = "."}
        stop == IF dots = {} THEN Len(s) + 1
                ELSE CHOOSE i \in dots : \A j \in dots : i <= j
        unders == {i \in 1..(stop - 1) : s[i] = "_"}
    IN  IF unders = {} THEN [has |-> FALSE, text |-> <<>>]
        ELSE [has |-> TRUE,
              text |-> SubSeq(s, 1 + (CHOOSE i \in unders :
                                         \A j \in unders : i <= j), stop - 1)]

\* C12 as stated: parse_corridor never raises; it returns a Corridor other
\* than Corridor(0, UNKNOWN, UNKNOWN) only when the string splits on "." into
\* exactly three segments and the text after the first "_" of the first one
\* is an integer; every other string gives that sentinel; and every district
\* returned is a non-negative integer.
C12_ParseCorridorTotal ==
    probe.op = "parse_corridor" =>
        /\ probe.out.kind = "return"
        /\ probe.out.corridor # SentinelCorridor =>
              /\ SegmentCount(probe.input) = 3
              /\ AfterFirstUnderscore(probe.input).has
              /\ ParseInt10(AfterFirstUnderscore(probe.input).text).ok
        /\ probe.out.corridor.district >= 0

\* a decimal numeral as str() writes it: no sign but "-", no leading zero
CanonicalNumber(t) ==
    LET u == IF t # <<>> /\ t[1] = "-" THEN Tail(t) ELSE t
    IN  /\ u # <<>>
        /\ \A i \in 1..Len(u) : IsDigit(u[i])
        /\ Len(u) > 1 => u[1] # "0"
        /\ u = <<"0">> => t = u

\* s is written DISTRICT_<district>.<chamber>.<node>
Canonical(s) ==
    /\ SegmentCount(s) = 3
    /\ Len(s) > Len(SegDistrict) + 1
    /\ SubSeq(s, 1, Len(SegDistrict) + 1) = SegDistrict \o <<"_">>
    /\ CanonicalNumber(AfterFirstUnderscore(s).text)

\* C17: get_neighbors returns the graph's entry under the key
\* DISTRICT_<district>.<chamber>.<node>, the empty list when there is none,
\* and leaves the graph as it was; so for a key s of the graph in that form
\* get_neighbors(parse_corridor(s)) is the graph's entry for s, and the
\* sentinel corridor has no neighbors under the default graph.
C17_NeighborsRoundTrip ==
    probe.op = "get_neighbors" =>
        /\ probe.graph_after = probe.graph
        /\ \/ probe.out = <<>>
           \/ \E key \in DOMAIN probe.graph : probe.out = probe.graph[key]
        /\ Canonical(probe.input) =>
              probe.out = IF probe.input \in DOMAIN probe.graph
                          THEN probe.graph[probe.input] ELSE <<>>
        /\ (probe.corridor = SentinelCorridor /\ probe.graph = corridor_graph)
              => probe.out = <<>>

\* a key of the default graph was parsed and looked up, and its entry returned
C17_Witness ==
    /\ probe.op = "get_neighbors"
    /\ probe.graph = corridor_graph
    /\ probe.input \in DOMAIN probe.graph
    /\ Canonical(probe.input)
    /\ probe.out = probe.graph[probe.input]
    /\ probe.out # <<>>

\* the text after the first "0x" of a signature; has says there is a marker
AfterMarker(signature) ==
    LET i == Find0x(signature)
    IN  [has |-> i # 0,
         text |-> IF i = 0 THEN <<>> ELSE SubSeq(signature, i + 2, Len(signature))]

AllHex(text) == text # <<>> /\ \A i \in 1..Len(text) : IsHex(text[i])

\* text int(..., 16) cannot read: nothing, or a character that is no hex
\* digit, sign, underscore, white space or prefix letter
Unparsable(text) ==
    \/ text = <<>>
    \/ \E i \in 1..Len(text) :
          ~IsHex(text[i]) /\ text[i] \notin {"+", "-", "_", " ", "x", "X"}

\* C13: decode_voxel_signature never raises and returns an integer in
\* [0, 2^27): for a signature with the marker 0x followed by hex digits it
\* returns their value masked to the low 27 bits (4 sets exactly bit 2, 0
\* decodes to 0), for a signature with no marker or with a hex part that
\* cannot be read it returns 0; a cached signature decodes to the same value.
C13_DecodeInRange ==
    probe.op = "decode_voxel_signature" =>
        LET after == AfterMarker(probe.signature)
        IN  /\ probe.out \in 0..(2 ^ VoxelBits - 1)
            /\ (after.has /\ AllHex(after.text)) =>
                  probe.out = DigitsVal(after.text, 0) % (2 ^ VoxelBits)
            /\ probe.signature = SigForward =>
                  /\ probe.out = 4
                  /\ \A b \in 0..(VoxelBits - 1) : BitSet(probe.out, b) <=> b = 2
            /\ probe.signature = SigZero => probe.out = 0
            /\ (~after.has \/ Unparsable(after.text)) => probe.out = 0
            /\ probe.out = DecodeFresh(probe.signature).bits

\* a signature whose hex value has bit 27 set was decoded, from the cache the
\* second time, to its low 27 bits
C13_Witness ==
    /\ probe.op = "decode_voxel_signature"
    /\ probe.cached
    /\ AfterMarker(probe.signature).has
    /\ AllHex(AfterMarker(probe.signature).text)
    /\ DigitsVal(AfterMarker(probe.signature).text, 0) >= 2 ^ VoxelBits
    /\ probe.out = 4

\* the faces as the specification lists them
C14_Face(direction) ==
    CASE direction = "forward" -> {2, 5, 8, 11, 14, 17, 20, 23, 26}
      [] direction = "backward" -> {0, 3, 6, 9, 12, 15, 18, 21, 24}
      [] direction = "left" -> {0, 1, 2, 9, 10, 11, 18, 19, 20}
      [] direction = "right" -> {6, 7, 8, 15, 16, 17, 24, 25, 26}
      [] OTHER -> {}

\* C14: is_collision_ahead(bits, direction) is true exactly when a bit of the
\* direction's nine-position face is set in bits; bits = 0 gives false for
\* every direction and a direction outside the four gives false for every bits.
C14_CollisionFace ==
    probe.op = "is_collision_ahead" =>
        /\ probe.out <=>
              \E p \in C14_Face(probe.direction) :
                  probe.voxel_bits % (2 ^ (p + 1)) >= 2 ^ p
        /\ probe.voxel_bits = 0 => ~probe.out
        /\ probe.direction \notin {"forward", "backward", "left", "right"}
              => ~probe.out
        /\ Cardinality(C14_Face(probe.direction)) \in {0, 9}

\* bit 9 alone: a collision to the left, asked for the left
C14_Witness ==
    /\ probe.op = "is_collision_ahead"
    /\ probe.direction = "left"
    /\ probe.voxel_bits = 2 ^ 9
    /\ probe.out

\* what C15 says of an ActionResult out returned for name and params
C15_ResultAsStated(registry, name, params, out) ==
    /\ DOMAIN out = {"success", "result", "error"}
    /\ name \notin DOMAIN registry =>
          /\ ~out.success
          /\ out.error = <<"Unknown action: ", name>>
          /\ out.result = None
    /\ name \in DOMAIN registry =>
          IF ~registry[name].callable
          THEN /\ out.success
               /\ out.result = registry[name]
               /\ out.error = None
          ELSE IF registry[name].does \in {"raise", "exit"}
                  \/ DOMAIN params # registry[name].args
          THEN /\ ~out.success
               /\ out.result = None
               /\ out.error # None
               /\ (DOMAIN params = registry[name].args)
                     => out.error = registry[name].value
          ELSE /\ out.success
               /\ out.error = None
               /\ registry[name].does = "return"
                     => out.result = registry[name].value
               /\ registry[name].does = "default"
                     => out.result.status # None

\* the call is one whose callable, rightly called, raises what is no Exception
C15_Exits ==
    /\ probe.action_name \in DOMAIN probe.registry
    /\ probe.registry[probe.action_name].callable
    /\ probe.registry[probe.action_name].does = "exit"
    /\ DOMAIN probe.params = probe.registry[probe.action_name].args

\* C15 as stated: execute never lets a fault reach its caller and always
\* returns an ActionResult: for a name outside the registry success is false,
\* the error is "Unknown action: <name>" and there is no result; for a
\* callable that raises when called with the params as named arguments (a
\* mismatch of the names included) success is false, the error is the
\* failure's message and there is no result; for a callable that returns
\* success is true with its value and no error; for an entry that is no
\* callable success is true with the entry itself as the result.
C15_AsStated ==
    probe.op = "execute" =>
        /\ probe.out.kind = "return"
        /\ C15_ResultAsStated(probe.registry, probe.action_name, probe.params,
                              probe.out.result)

\* C15, amended: the same, for every call but that of a callable which raises
\* an exception outside Exception (SystemExit, KeyboardInterrupt): that one
\* reaches the caller and no ActionResult is returned.
C15_ExecuteCatchesExceptions ==
    probe.op = "execute" =>
        IF C15_Exits
        THEN probe.out.kind = "raise" /\ probe.out.exception = "SystemExit"
        ELSE /\ probe.out.kind = "return"
             /\ C15_ResultAsStated(probe.registry, probe.action_name,
                                   probe.params, probe.out.result)

\* an entry that is no callable was executed and came back as the result
C15_Witness ==
    /\ probe.op = "execute"
    /\ probe.action_name \in DOMAIN probe.registry
    /\ ~probe.registry[probe.action_name].callable
    /\ probe.out.kind = "return"
    /\ probe.out.result.success
    /\ probe.out.result.result = probe.registry[probe.action_name]

\* C18 as stated: get_phase_quadrant returns a value in {0, 1, 2, 3} for every
\* phase angle, negative ones included, and is periodic in whole turns:
\* quadrant(phi) = quadrant(phi + 2*pi*k) for every integer k.
C18_QuadrantPeriodic ==
    probe.op = "get_phase_quadrant" =>
        /\ probe.out \in 0..3
        /\ probe.out = probe.out_shifted

\* the decision a runtime just built returns for a record
FreshDecision(pixel) ==
    decide(Context(pixel,
                   DriftClassify(pixel.autonomyIndex, DefaultWarning,
                                 DefaultCritical),
                   DecodeFresh(pixel.voxelSignature).bits))

\* C19: the decision process_pixel returns depends on the record and the
\* configuration only, never on the records processed before: it is the
\* decision a new runtime returns for the record, so two runtimes, whatever
\* each has processed, decide alike on the same record.  Every voxel-cache
\* entry maps a signature to the value a fresh decode gives it, a signature
\* that fails to decode is never cached, and an entry is never changed or
\* evicted.
C19_DecisionFromRecordAlone ==
    /\ [](/\ \A i \in 1..Len(calls) :
                calls[i].decision = FreshDecision(calls[i].pixel)
          /\ \A i, j \in 1..Len(calls) :
                calls[i].pixel = calls[j].pixel
                    => calls[i].decision = calls[j].decision
          /\ \A signature \in DOMAIN voxel_cache :
                /\ DecodeFresh(signature).ok
                /\ voxel_cache[signature] = DecodeFresh(signature).bits)
    /\ [][\A signature \in DOMAIN voxel_cache :
             /\ signature \in DOMAIN voxel_cache'
             /\ voxel_cache'[signature] = voxel_cache[signature]]_vars

\* a record was processed twice, after itself: the second time its signature
\* came from the cache, and the decision, AVOID_OBSTACLE, was the same
C19_Witness ==
    /\ Len(calls) = 2
    /\ calls[1].pixel = calls[2].pixel
    /\ calls[2].pixel.voxelSignature \in DOMAIN voxel_cache
    /\ calls[2].decision.action = "AVOID_OBSTACLE"
    /\ last.op = "process_pixel"

\* every decision decide returns names a default action and carries exactly
\* its named arguments
C20_EveryDecisionFits ==
    \A context \in Contexts :
        LET decision == decide(context)
        IN  /\ decision.action \in DOMAIN action_registry
            /\ DOMAIN decision.params = action_registry[decision.action]
            /\ execute(decision.action, decision.params).kind = "return"
            /\ execute(decision.action, decision.params).result.success

\* C20: under the default configuration every decision decide or process_pixel
\* can produce executes successfully: its action is a key of the default
\* registry and its params are the callable's named arguments, so
\* execute_decision returns success = true.
C20_DecisionsExecute ==
    /\ C20_EveryDecisionFits
    /\ \A i \in 1..Len(calls) :
          /\ calls[i].decision.action \in DOMAIN action_registry
          /\ DOMAIN calls[i].decision.params
                = action_registry[calls[i].decision.action]
    /\ (last.op = "execute_decision"
        /\ \E i \in 1..Len(calls) : calls[i].decision = last.decision)
          => /\ last.result.success
             /\ last.result.error = None

\* the decision REALIGN_INTENT, which carries target_psi, came out of
\* process_pixel and was executed with success
C20_Witness ==
    /\ last.op = "execute_decision"
    /\ last.decision.action = "REALIGN_INTENT"
    /\ \E i \in 1..Len(calls) : calls[i].decision = last.decision
    /\ last.result.success

====
